---- MODULE Spec2Model ----
(***************************************************************************)
(* A model of src/Article_extraction_with_pagination.py: the paginated     *)
(* search (search_urls_bing_news), the URL date extraction                 *)
(* (extract_date_from_url), the article fetcher with its date-resolution   *)
(* chain (fetch_full_text_and_summary), the classifier                     *)
(* (categorize_article) and the orchestrator (run_tracker).                *)
(*                                                                         *)
(* Python strings are TLA+ strings (TLC evaluates Len, \o and SubSeq on    *)
(* them).  A datetime is the tuple <<year, month, day, hour, minute,       *)
(* second, tzinfo>> with tzinfo = "" for a naive one; Python's None is     *)
(* NoneDt (the empty tuple) for a datetime and NoneStr for a string.       *)
(***************************************************************************)
EXTENDS Integers, Sequences, FiniteSets, TLC

VARIABLES
    \* one call of extract_date_from_url
    u_pc, u_url, u_result,
    \* one call of categorize_article
    c_pc, c_text, c_result,
    \* one call of fetch_full_text_and_summary
    f_pc, f_url, f_env, f_result,
    \* one call of search_urls_bing_news
    s_pc, max_pages, page, all_results, seen_urls, requests, fetched,
    \* one call of run_tracker
    t_pc, keywords, leaders, start_date, end_date, kw_idx, search_results,
    hit_idx, final_data, failed_articles, final_from, failed_from, hit_log

u_vars == <<u_pc, u_url, u_result>>
c_vars == <<c_pc, c_text, c_result>>
f_vars == <<f_pc, f_url, f_env, f_result>>
s_vars == <<s_pc, max_pages, page, all_results, seen_urls, requests, fetched>>
t_vars == <<t_pc, keywords, leaders, start_date, end_date, kw_idx, search_results,
            hit_idx, final_data, failed_articles, final_from, failed_from, hit_log>>
vars == <<u_vars, c_vars, f_vars, s_vars, t_vars>>

-----------------------------------------------------------------------------
(* Python values *)

NoneDt == <<>>
NoneStr == "<None>"

\* Python truthiness of an optional string: None and "" are falsy.
Truthy(s) == s # NoneStr /\ s # ""

Digits == {"0", "1", "2", "3", "4", "5", "6", "7", "8", "9"}

DigitVal(c) ==
    CASE c = "0" -> 0 [] c = "1" -> 1 [] c = "2" -> 2 [] c = "3" -> 3
      [] c = "4" -> 4 [] c = "5" -> 5 [] c = "6" -> 6 [] c = "7" -> 7
      [] c = "8" -> 8 [] c = "9" -> 9

CharAt(s, i) == SubSeq(s, i, i)

\* the regex class \d{n} at position i of s
DigitsAt(s, i, n) ==
    /\ i + n - 1 <= Len(s)
    /\ \A j \in i..(i + n - 1) : CharAt(s, j) \in Digits

RECURSIVE IntOf(_)
IntOf(s) ==
    IF s = "" THEN 0
    ELSE 10 * IntOf(SubSeq(s, 1, Len(s) - 1)) + DigitVal(CharAt(s, Len(s)))

IsLeap(y) == (y % 4 = 0 /\ y % 100 # 0) \/ y % 400 = 0

DaysIn(y, m) ==
    IF m = 2 THEN (IF IsLeap(y) THEN 29 ELSE 28)
    ELSE IF m \in {4, 6, 9, 11} THEN 30 ELSE 31

ValidDate(y, m, d) == y >= 1 /\ m \in 1..12 /\ d \in 1..DaysIn(y, m)

ValidTime(h, mi, s) == h \in 0..23 /\ mi \in 0..59 /\ s \in 0..61

\* datetime.date(): the calendar date of a datetime
DateOf(dt) == <<dt[1], dt[2], dt[3]>>

\* a <= b on calendar dates
DateLeq(a, b) ==
    \/ a[1] < b[1]
    \/ a[1] = b[1] /\ a[2] < b[2]
    \/ a[1] = b[1] /\ a[2] = b[2] /\ a[3] <= b[3]

_make_naive(dt) ==
    IF dt # NoneDt /\ dt[7] # "" THEN [dt EXCEPT ![7] = ""] ELSE dt

-----------------------------------------------------------------------------
(* extract_date_from_url *)

Sep(s, i) == CharAt(s, i) \in {"-", "/"}

\* (\d{4}[-/]\d{2}[-/]\d{2})
Group1At(s, i) ==
    /\ i + 9 <= Len(s)
    /\ DigitsAt(s, i, 4) /\ Sep(s, i + 4)
    /\ DigitsAt(s, i + 5, 2) /\ Sep(s, i + 7)
    /\ DigitsAt(s, i + 8, 2)

\* (\d{8})
Group2At(s, i) == DigitsAt(s, i, 8)

\* (\d{14})
Group3At(s, i) == DigitsAt(s, i, 14)

\* The alternation at one position: the alternatives are tried left to right and
\* the first that matches is the match; the other groups stay None.
MatchAt(s, i) ==
    IF Group1At(s, i) THEN <<SubSeq(s, i, i + 9), NoneStr, NoneStr>>
    ELSE IF Group2At(s, i) THEN <<NoneStr, SubSeq(s, i, i + 7), NoneStr>>
    ELSE IF Group3At(s, i) THEN <<NoneStr, NoneStr, SubSeq(s, i, i + 13)>>
    ELSE <<>>

\* re.search: the match at the leftmost position that has one, else no match.
re_search(s) ==
    LET hits == {i \in 1..Len(s) : MatchAt(s, i) # <<>>}
    IN  IF hits = {} THEN <<>>
        ELSE MatchAt(s, CHOOSE i \in hits : \A j \in hits : i <= j)

\* an exception raised inside the try block (ValueError of strptime)
Raised == <<"raise">>

\* datetime.strptime(val, "%Y%m%d%H%M%S") on 14 digits
strptime14(val) ==
    LET y == IntOf(SubSeq(val, 1, 4))   m == IntOf(SubSeq(val, 5, 6))
        d == IntOf(SubSeq(val, 7, 8))   h == IntOf(SubSeq(val, 9, 10))
        mi == IntOf(SubSeq(val, 11, 12)) s == IntOf(SubSeq(val, 13, 14))
    IN  IF ValidDate(y, m, d) /\ ValidTime(h, mi, s)
        THEN <<y, m, d, h, mi, s, "">>
        ELSE Raised

\* dateparser.parse on the date strings of this model: YYYYMMDD, or YYYY-MM-DD /
\* YYYY/MM/DD with an optional THH:MM:SS and an optional offset (Z or +HH:MM);
\* the datetime keeps the offset as its tzinfo.  None for anything else.
dateparser_parse(s) ==
    LET compact == Len(s) = 8 /\ DigitsAt(s, 1, 8)
        iso == Len(s) >= 10 /\ Group1At(s, 1)
        y == IntOf(SubSeq(s, 1, 4))
        m == IF iso THEN IntOf(SubSeq(s, 6, 7)) ELSE IntOf(SubSeq(s, 5, 6))
        d == IF iso THEN IntOf(SubSeq(s, 9, 10)) ELSE IntOf(SubSeq(s, 7, 8))
        hasTime == /\ iso /\ Len(s) >= 19 /\ CharAt(s, 11) = "T"
                   /\ DigitsAt(s, 12, 2) /\ CharAt(s, 14) = ":"
                   /\ DigitsAt(s, 15, 2) /\ CharAt(s, 17) = ":"
                   /\ DigitsAt(s, 18, 2)
        h == IF hasTime THEN IntOf(SubSeq(s, 12, 13)) ELSE 0
        mi == IF hasTime THEN IntOf(SubSeq(s, 15, 16)) ELSE 0
        sec == IF hasTime THEN IntOf(SubSeq(s, 18, 19)) ELSE 0
        rest == IF hasTime THEN SubSeq(s, 20, Len(s))
                ELSE IF iso THEN SubSeq(s, 11, Len(s)) ELSE ""
        tzOk == \/ rest \in {"", "Z"}
                \/ /\ Len(rest) = 6 /\ CharAt(rest, 1) \in {"+", "-"}
                   /\ DigitsAt(rest, 2, 2) /\ CharAt(rest, 4) = ":"
                   /\ DigitsAt(rest, 5, 2)
    IN  IF (compact \/ iso) /\ ValidDate(y, m, d) /\ ValidTime(h, mi, sec) /\ tzOk
        THEN <<y, m, d, h, mi, sec, rest>>
        ELSE NoneDt

extract_date_from_url(url) ==
    LET match == re_search(url)
    IN  IF match # <<>>
        THEN LET val == IF Truthy(match[1]) THEN match[1]
                        ELSE IF Truthy(match[2]) THEN match[2] ELSE match[3]
                 r == IF Len(val) = 14 THEN strptime14(val)
                      ELSE dateparser_parse(val)
             IN  IF r = Raised THEN NoneDt ELSE _make_naive(r)
        ELSE NoneDt

-----------------------------------------------------------------------------
(* The calls of extract_date_from_url: the URL is drawn from UrlInputs. *)

UrlPrefixes == {"", "x/", "n7/"}
UrlDates == {"", "2023-11-05", "2023/11/05", "2023-1-05", "2023-13-05",
             "20231105", "2023110", "20230229", "20240229",
             "20231105143000", "19991231235959", "20231105250000"}
UrlSuffixes == {"", "/s", "9"}
UrlInputs == {p \o d \o s : p \in UrlPrefixes, d \in UrlDates, s \in UrlSuffixes}

IdleU == u_pc = "idle" /\ u_url = "" /\ u_result = NoneDt
IdleC == c_pc = "idle" /\ c_text = "" /\ c_result = ""
IdleF == f_pc = "idle" /\ f_url = "" /\ f_env = <<>> /\ f_result = <<>>
IdleS == /\ s_pc = "idle" /\ max_pages = 0 /\ page = 0 /\ all_results = <<>>
         /\ seen_urls = {} /\ requests = <<>> /\ fetched = <<>>
IdleT == /\ t_pc = "idle" /\ keywords = <<>> /\ leaders = <<>>
         /\ start_date = <<>> /\ end_date = <<>> /\ kw_idx = 0
         /\ search_results = <<>> /\ hit_idx = 0 /\ final_data = <<>>
         /\ failed_articles = <<>> /\ final_from = <<>> /\ failed_from = <<>>
         /\ hit_log = <<>>

InitUrl ==
    /\ u_pc = "call" /\ u_url \in UrlInputs /\ u_result = NoneDt
    /\ IdleC /\ IdleF /\ IdleS /\ IdleT

ExtractDateFromUrl ==
    /\ u_pc = "call"
    /\ u_result' = extract_date_from_url(u_url)
    /\ u_pc' = "returned"
    /\ UNCHANGED <<u_url, c_vars, f_vars, s_vars, t_vars>>

NextUrl == ExtractDateFromUrl

SpecUrl == InitUrl /\ [][NextUrl]_vars

\* C6: for every URL whose numeric date component is a run of 14 digits
\* YYYYMMDDHHMMSS, extract_date_from_url returns the full timestamp, hour,
\* minute and second included.
Run14At(s, i) ==
    /\ DigitsAt(s, i, 14)
    /\ (i = 1 \/ CharAt(s, i - 1) \notin Digits)
    /\ (i + 14 > Len(s) \/ CharAt(s, i + 14) \notin Digits)

C6_FullTimestamp ==
    u_pc = "returned" =>
        \A i \in 1..Len(u_url) :
            (Run14At(u_url, i) /\ strptime14(SubSeq(u_url, i, i + 13)) # Raised)
                => u_result = strptime14(SubSeq(u_url, i, i + 13))

-----------------------------------------------------------------------------
(* categorize_article *)

UpperChars == "ABCDEFGHIJKLMNOPQRSTUVWXYZ"
LowerChars == "abcdefghijklmnopqrstuvwxyz"

LowerCh(c) ==
    IF \E i \in 1..26 : CharAt(UpperChars, i) = c
    THEN CharAt(LowerChars, CHOOSE i \in 1..26 : CharAt(UpperChars, i) = c)
    ELSE c

\* str.lower()
RECURSIVE lower(_)
lower(s) ==
    IF s = "" THEN ""
    ELSE LowerCh(CharAt(s, 1)) \o lower(SubSeq(s, 2, Len(s)))

\* Python's `k in text` on strings
In(k, text) ==
    \E i \in 1..(Len(text) - Len(k) + 1) : SubSeq(text, i, i + Len(k) - 1) = k

\* text or ""
OrEmpty(text) == IF text = NoneStr THEN "" ELSE text

CATEGORY_KEYWORDS == <<
    [category |-> "Press Release",
     keywords |-> <<"press release", "announced", "unveiled", "launched">>],
    [category |-> "Jury",
     keywords |-> <<"jury", "judge", "jury member", "jury panel", "jury appointment">>],
    [category |-> "Interviews",
     keywords |-> <<"interview with", "exclusive interview", "spoke to", "conversation with">>],
    [category |-> "Speaking Opportunity",
     keywords |-> <<"keynote", "fireside chat", "panel discussion", "session speaker", "speaker at">>],
    [category |-> "Article Commentary",
     keywords |-> <<"quoted", "commented", "shared", "according to", "said", "opinion">>],
    [category |-> "Brief Mentions",
     keywords |-> <<"congratulations", "appointed", "wins", "promotion", "award", "linkedin update">>] >>

\* for keyword in keywords: if keyword in text: (found)
RECURSIVE KeywordLoop(_, _, _)
KeywordLoop(kws, j, text) ==
    IF j > Len(kws) THEN FALSE
    ELSE IF In(kws[j], text) THEN TRUE
    ELSE KeywordLoop(kws, j + 1, text)

\* for category, keywords in CATEGORY_KEYWORDS.items(): ...; return "Brief Mentions"
RECURSIVE CategoryLoop(_, _)
CategoryLoop(i, text) ==
    IF i > Len(CATEGORY_KEYWORDS) THEN "Brief Mentions"
    ELSE IF KeywordLoop(CATEGORY_KEYWORDS[i].keywords, 1, text)
         THEN CATEGORY_KEYWORDS[i].category
    ELSE CategoryLoop(i + 1, text)

\* the same without text.lower()
categorize_article_no_lower(text) == CategoryLoop(1, OrEmpty(text))

categorize_article(text) == CategoryLoop(1, lower(OrEmpty(text)))

(* The calls of categorize_article: the text is two fragments joined by a blank,
   or None. *)
TextFragments == {"", "hello world", "Press Release", "the JURY met", "a judge",
                  "Interview With", "Keynote", "he said", "was quoted",
                  "an Award", "LAUNCHED", "appointed", "said"}
ClassifyInputs == {a \o " " \o b : a \in TextFragments, b \in TextFragments}
                     \cup {"", NoneStr}

InitClassify ==
    /\ c_pc = "call" /\ c_text \in ClassifyInputs /\ c_result = ""
    /\ IdleU /\ IdleF /\ IdleS /\ IdleT

CategorizeArticle ==
    /\ c_pc = "call"
    /\ c_result' = categorize_article(c_text)
    /\ c_pc' = "returned"
    /\ UNCHANGED <<c_text, u_vars, f_vars, s_vars, t_vars>>

NextClassify == CategorizeArticle

SpecClassify == InitClassify /\ [][NextClassify]_vars

Taxonomy == {CATEGORY_KEYWORDS[i].category : i \in 1..Len(CATEGORY_KEYWORDS)}

\* the categories, by declared position, that have a trigger phrase in text
Triggered(text) ==
    {i \in 1..Len(CATEGORY_KEYWORDS) :
        \E j \in 1..Len(CATEGORY_KEYWORDS[i].keywords) :
            In(CATEGORY_KEYWORDS[i].keywords[j], text)}

\* C7: categorize_article returns, for every text (empty and absent included),
\* one category of the taxonomy: the first declared category with a trigger
\* phrase in the lower-cased text, and "Brief Mentions" when there is none.
C7_FirstDeclaredCategory ==
    c_pc = "returned" =>
        LET t == Triggered(lower(OrEmpty(c_text)))
        IN  /\ c_result \in Taxonomy
            /\ t = {} => c_result = "Brief Mentions"
            /\ t # {} =>
                 c_result = CATEGORY_KEYWORDS[CHOOSE i \in t : \A j \in t : i <= j].category

\* an upper-case trigger of "Jury" after a trigger of the later-declared
\* "Article Commentary": the answer is "Jury"
C7_Witness ==
    /\ c_pc = "returned" /\ c_result = "Jury"
    /\ c_text # NoneStr /\ c_text # lower(c_text)
    /\ In("said", lower(c_text)) /\ ~In("jury", c_text)

\* no trigger phrase at all, and the absent text
C7_WitnessCatchAll ==
    c_pc = "returned" /\ c_text = NoneStr /\ c_result = "Brief Mentions"

-----------------------------------------------------------------------------
(* The date resolver's other two strategies *)

(* An HTML document is its <meta> tags, each [attr, key, content] with attr the
   attribute that names it (property, name or itemprop) and content a string or
   None, and the texts of its <p> elements.  The empty string "" is EmptyHtml. *)
NoneHtml == [none |-> TRUE]
EmptyHtml == [metas |-> <<>>, paras |-> <<>>]
HtmlTruthy(html) == html # NoneHtml /\ html # EmptyHtml

NoneTag == [none |-> TRUE]

meta_props == <<"article:published_time", "og:published_time", "datePublished",
                "publish_date", "pubdate", "publishdate", "date", "article:published",
                "parsely-pub-date", "dc.date", "dc.date.issued", "date">>

\* soup.find("meta", attrs={attr: prop}): the first such tag of the document
soup_find(html, attr, prop) ==
    LET at == {i \in 1..Len(html.metas) :
                  html.metas[i].attr = attr /\ html.metas[i].key = prop}
    IN  IF at = {} THEN NoneTag
        ELSE html.metas[CHOOSE i \in at : \A j \in at : i <= j]

\* find(property=prop) or find(name=prop) or find(itemprop=prop)
FindMeta(html, prop) ==
    IF soup_find(html, "property", prop) # NoneTag THEN soup_find(html, "property", prop)
    ELSE IF soup_find(html, "name", prop) # NoneTag THEN soup_find(html, "name", prop)
    ELSE soup_find(html, "itemprop", prop)

RECURSIVE MetaLoop(_, _)
MetaLoop(html, i) ==
    IF i > Len(meta_props) THEN NoneDt
    ELSE LET tag == FindMeta(html, meta_props[i])
         IN  IF /\ tag # NoneTag /\ Truthy(tag.content)
                /\ dateparser_parse(tag.content) # NoneDt
             THEN _make_naive(dateparser_parse(tag.content))
             ELSE MetaLoop(html, i + 1)

extract_date_from_meta(html) == MetaLoop(html, 1)

\* search_dates on the texts of this model, whose date phrases are YYYY-MM-DD:
\* the dates found, in text order (the empty sequence for none).
RECURSIVE SearchFrom(_, _)
SearchFrom(text, i) ==
    IF i > Len(text) THEN <<>>
    ELSE IF Group1At(text, i) /\ dateparser_parse(SubSeq(text, i, i + 9)) # NoneDt
         THEN <<dateparser_parse(SubSeq(text, i, i + 9))>> \o SearchFrom(text, i + 10)
    ELSE SearchFrom(text, i + 1)

search_dates(text) == SearchFrom(text, 1)

RECURSIVE TextDateLoop(_, _, _)
TextDateLoop(dates, i, now) ==
    IF i > Len(dates) THEN NoneDt
    ELSE LET date_obj == _make_naive(dates[i])
         IN  IF date_obj[1] >= 2000 /\ DateLeq(DateOf(date_obj), DateOf(now))
             THEN date_obj
             ELSE TextDateLoop(dates, i + 1, now)

extract_date_from_text(text, now) ==
    IF ~Truthy(text) THEN NoneDt
    ELSE TextDateLoop(search_dates(text), 1, now)

-----------------------------------------------------------------------------
(* fetch_full_text_and_summary *)

Whitespace == {" ", "\n", "\t"}

\* str.strip()
RECURSIVE strip(_)
strip(s) ==
    IF s = "" THEN ""
    ELSE IF CharAt(s, 1) \in Whitespace THEN strip(SubSeq(s, 2, Len(s)))
    ELSE IF CharAt(s, Len(s)) \in Whitespace THEN strip(SubSeq(s, 1, Len(s) - 1))
    ELSE s

\* sep.join(parts)
RECURSIVE join(_, _)
join(sep, parts) ==
    IF parts = <<>> THEN ""
    ELSE IF Len(parts) = 1 THEN parts[1]
    ELSE parts[1] \o sep \o join(sep, Tail(parts))

\* p.get_text(strip=True) for p in paragraphs if p.get_text(strip=True)
RECURSIVE ParagraphTexts(_)
ParagraphTexts(paras) ==
    IF paras = <<>> THEN <<>>
    ELSE IF strip(paras[1]) # "" THEN <<strip(paras[1])>> \o ParagraphTexts(Tail(paras))
    ELSE ParagraphTexts(Tail(paras))

FetchFailed == <<NoneStr, NoneDt, NoneStr>>

\* the chain below with the URL's date taken whenever there is one
ResolveDate_url_overrides(pub_date, html, full_text, url, now) ==
    LET pub_date1 == IF pub_date = NoneDt /\ HtmlTruthy(html)
                     THEN extract_date_from_meta(html) ELSE pub_date
        pub_date2 == IF pub_date1 = NoneDt /\ Truthy(full_text)
                     THEN extract_date_from_text(full_text, now) ELSE pub_date1
    IN  IF extract_date_from_url(url) # NoneDt
        THEN extract_date_from_url(url) ELSE pub_date2

\* the chain after the extraction: metadata, then body text, then the URL
ResolveDate(pub_date, html, full_text, url, now) ==
    LET pub_date1 == IF pub_date = NoneDt /\ HtmlTruthy(html)
                     THEN extract_date_from_meta(html) ELSE pub_date
        pub_date2 == IF pub_date1 = NoneDt /\ Truthy(full_text)
                     THEN extract_date_from_text(full_text, now) ELSE pub_date1
    IN  IF pub_date2 = NoneDt THEN extract_date_from_url(url) ELSE pub_date2

\* the fallback's exception, not caught
fetch_fallback_uncaught(url, env) ==
    IF env.primary = "raise" /\ env.fallback = "raise" THEN Raised
    ELSE
    LET full_text == IF env.primary = "ok" THEN strip(env.text)
                     ELSE join("\n", ParagraphTexts(env.html.paras))
        summary == IF env.primary = "ok" THEN env.summary ELSE NoneStr
        pub_date == IF env.primary = "ok" THEN _make_naive(env.publish_date) ELSE NoneDt
    IN  <<full_text, ResolveDate(pub_date, env.html, full_text, url, env.now), summary>>

(* env is what the network and the extraction library answer for the URL:
   primary   "ok", or "raise" when Article download/parse/nlp raises
   text, summary, publish_date   the library's article.text, .summary, .publish_date
   fallback  "ok", or "raise" when requests.get or raise_for_status raises
   html      the page
   now       datetime.now() *)
fetch_full_text_and_summary(url, env) ==
    IF env.primary = "raise" /\ env.fallback = "raise" THEN FetchFailed
    ELSE
    LET full_text == IF env.primary = "ok" THEN strip(env.text)
                     ELSE join("\n", ParagraphTexts(env.html.paras))
        summary == IF env.primary = "ok" THEN env.summary ELSE NoneStr
        pub_date == IF env.primary = "ok" THEN _make_naive(env.publish_date) ELSE NoneDt
    IN  <<full_text, ResolveDate(pub_date, env.html, full_text, url, env.now), summary>>

(* The calls of fetch_full_text_and_summary: the URL and the answers are drawn
   from the sets below. *)
Now == <<2024, 6, 15, 12, 0, 0, "">>

Meta(attr, key, content) == [attr |-> attr, key |-> key, content |-> content]

HtmlDated ==
    [metas |-> <<Meta("name", "date", "yesterday-ish"),
                 Meta("itemprop", "datePublished", "2024-03-03"),
                 Meta("property", "article:published_time", "2024-03-02T10:00:00+05:30")>>,
     paras |-> <<"  Jane Doe was quoted ", "   ", "by Acme Corp on 2024-03-04">>]
HtmlUndated ==
    [metas |-> <<Meta("name", "pubdate", NoneStr), Meta("name", "date", "soon")>>,
     paras |-> <<"hello world", "\n">>]

FetchHtmls == {EmptyHtml, HtmlDated, HtmlUndated}
FetchTexts == {"", "  ", "hello world ", "Acme Corp said on 2024-03-01 ok",
               "due 2031-01-01 and 1999-05-05 then 2024-02-02"}
FetchLibDates == {NoneDt, <<2024, 3, 5, 9, 0, 0, "+05:30">>}
FetchUrls == {"x/2024-03-09/a", "x/b"}

FetchEnvs ==
    [primary : {"ok", "raise"}, fallback : {"ok", "raise"}, text : FetchTexts,
     summary : {"sum"}, publish_date : FetchLibDates, html : FetchHtmls,
     now : {Now}]

InitFetch ==
    /\ f_pc = "call" /\ f_url \in FetchUrls /\ f_env \in FetchEnvs /\ f_result = <<>>
    /\ IdleU /\ IdleC /\ IdleS /\ IdleT

FetchFullTextAndSummary ==
    /\ f_pc = "call"
    /\ f_result' = fetch_full_text_and_summary(f_url, f_env)
    /\ f_pc' = "returned"
    /\ UNCHANGED <<f_url, f_env, u_vars, c_vars, s_vars, t_vars>>

NextFetch == FetchFullTextAndSummary

SpecFetch == InitFetch /\ [][NextFetch]_vars

f_retrieved == f_pc = "returned" /\ ~(f_env.primary = "raise" /\ f_env.fallback = "raise")

\* what each strategy yields for the call, in priority order; a strategy that
\* does not apply (no library extraction, no markup, no body text) yields None
f_strategies ==
    <<IF f_env.primary = "ok" THEN _make_naive(f_env.publish_date) ELSE NoneDt,
      IF HtmlTruthy(f_env.html) THEN extract_date_from_meta(f_env.html) ELSE NoneDt,
      IF Truthy(f_result[1]) THEN extract_date_from_text(f_result[1], f_env.now) ELSE NoneDt,
      extract_date_from_url(f_url)>>

\* C10: when a document is retrieved, the publish date returned is the date of
\* the first strategy (library, metadata, body text, URL) that yields one, and
\* it is absent only when none does.
C10_FirstStrategyWins ==
    f_retrieved =>
        LET present == {i \in 1..4 : f_strategies[i] # NoneDt}
        IN  /\ present = {} => f_result[2] = NoneDt
            /\ present # {} =>
                 f_result[2] = f_strategies[CHOOSE i \in present : \A j \in present : i <= j]

\* the body text and the URL both carry a date, the library and the metadata
\* none: the body text's date is returned
C10_Witness ==
    /\ f_retrieved
    /\ f_strategies[1] = NoneDt /\ f_strategies[2] = NoneDt
    /\ f_strategies[3] # NoneDt /\ f_strategies[4] # NoneDt
    /\ f_strategies[3] # f_strategies[4]
    /\ f_result[2] = f_strategies[3]

-----------------------------------------------------------------------------
(* search_urls_bing_news *)

\* A result element (a.title) is [text, href]; href is None when the attribute
\* is missing.  A response to a page request is the page's elements, or an
\* exception of requests.get / raise_for_status / the parse.
PageOk(items) == [status |-> "ok", items |-> items]
PageError == [status |-> "error", items |-> <<>>]

\* the loop below without `url not in seen_urls`
RECURSIVE ItemLoop_no_seen_check(_, _, _)
ItemLoop_no_seen_check(items, results, seen) ==
    IF items = <<>> THEN <<results, seen>>
    ELSE LET title == strip(Head(items).text)
             url == Head(items).href
         IN  IF Truthy(url)
             THEN ItemLoop_no_seen_check(Tail(items),
                      Append(results, [title |-> title, url |-> url]), seen \cup {url})
             ELSE ItemLoop_no_seen_check(Tail(items), results, seen)

\* for item in items: ... if url and url not in seen_urls: add, append
RECURSIVE ItemLoop(_, _, _)
ItemLoop(items, results, seen) ==
    IF items = <<>> THEN <<results, seen>>
    ELSE LET title == strip(Head(items).text)
             url == Head(items).href
         IN  IF Truthy(url) /\ url \notin seen
             THEN ItemLoop(Tail(items),
                      Append(results, [title |-> title, url |-> url]), seen \cup {url})
             ELSE ItemLoop(Tail(items), results, seen)

\* offset = page * 10; the request for that page (first={offset})
RequestPage == requests' = Append(requests, page * 10)

\* the exception below without the try: it leaves the function
SearchPageError_propagates ==
    /\ s_pc = "loop" /\ page < max_pages
    /\ RequestPage
    /\ fetched' = Append(fetched, PageError)
    /\ s_pc' = "raised"
    /\ UNCHANGED <<max_pages, page, all_results, seen_urls>>

\* the request raises, or the response does not parse: logged, break
SearchPageError ==
    /\ s_pc = "loop" /\ page < max_pages
    /\ RequestPage
    /\ fetched' = Append(fetched, PageError)
    /\ s_pc' = "returned"
    /\ UNCHANGED <<max_pages, page, all_results, seen_urls>>

\* the page below without the break
SearchPageEmpty_no_break ==
    /\ s_pc = "loop" /\ page < max_pages
    /\ RequestPage
    /\ fetched' = Append(fetched, PageOk(<<>>))
    /\ page' = page + 1
    /\ UNCHANGED <<s_pc, max_pages, all_results, seen_urls>>

\* if not items: break
SearchPageEmpty ==
    /\ s_pc = "loop" /\ page < max_pages
    /\ RequestPage
    /\ fetched' = Append(fetched, PageOk(<<>>))
    /\ s_pc' = "returned"
    /\ UNCHANGED <<max_pages, page, all_results, seen_urls>>

\* return all_results, once page < max_pages is false
SearchReturn ==
    /\ s_pc = "loop" /\ page >= max_pages
    /\ s_pc' = "returned"
    /\ UNCHANGED <<max_pages, page, all_results, seen_urls, requests, fetched>>

(* The calls of search_urls_bing_news.  A page holds 1..MaxItems elements; an
   element's href is missing, empty or one of SearchUrls, and its text names
   the page and the place it stands at. *)
MaxItems == 2
MaxPagesBound == 2
SearchUrls == {"u1", "u2"}
SearchHrefs == SearchUrls \cup {NoneStr, ""}

DigitChar(n) == CharAt("0123456789", n + 1)

ItemText(pg, i) == " p" \o DigitChar(pg) \o "i" \o DigitChar(i) \o " "

PagesAt(pg) ==
    UNION {{[i \in 1..n |-> [text |-> ItemText(pg, i), href |-> hrefs[i]]] :
               hrefs \in [1..n -> SearchHrefs]} : n \in 1..MaxItems}

\* a page with result elements: take them, page += 1, sleep
SearchPageItems ==
    /\ s_pc = "loop" /\ page < max_pages
    /\ RequestPage
    /\ \E items \in PagesAt(page) :
          /\ fetched' = Append(fetched, PageOk(items))
          /\ all_results' = ItemLoop(items, all_results, seen_urls)[1]
          /\ seen_urls' = ItemLoop(items, all_results, seen_urls)[2]
    /\ page' = page + 1
    /\ UNCHANGED <<s_pc, max_pages>>

InitSearch ==
    /\ s_pc = "loop" /\ max_pages \in 1..MaxPagesBound /\ page = 0
    /\ all_results = <<>> /\ seen_urls = {} /\ requests = <<>> /\ fetched = <<>>
    /\ IdleU /\ IdleC /\ IdleF /\ IdleT

NextSearch ==
    \/ (SearchPageItems /\ UNCHANGED <<u_vars, c_vars, f_vars, t_vars>>)
    \/ (SearchPageEmpty /\ UNCHANGED <<u_vars, c_vars, f_vars, t_vars>>)
    \/ (SearchPageError /\ UNCHANGED <<u_vars, c_vars, f_vars, t_vars>>)
    \/ (SearchReturn /\ UNCHANGED <<u_vars, c_vars, f_vars, t_vars>>)

SpecSearch == InitSearch /\ [][NextSearch]_vars

\* the result elements of the pages fetched so far, in the order received
RECURSIVE Flatten(_)
Flatten(resps) ==
    IF resps = <<>> THEN <<>> ELSE Head(resps).items \o Flatten(Tail(resps))

\* the places of flat where a URL stands for the first time
FirstOccurrences(flat) ==
    {i \in 1..Len(flat) :
        Truthy(flat[i].href) /\ \A j \in 1..(i - 1) : flat[j].href # flat[i].href}

\* the hits the result elements flat stand for: one per URL, that of the
\* URL's first occurrence, in the order of the first occurrences
ExpectedHits(flat) ==
    LET first == FirstOccurrences(flat)
    IN  [k \in 1..Cardinality(first) |->
            LET i == CHOOSE i \in first : Cardinality({j \in first : j < i}) = k - 1
            IN  [title |-> strip(flat[i].text), url |-> flat[i].href]]

\* C3: the sequence built by one call holds each URL at most once, at the
\* place of its first occurrence: the entries are, in order, the first
\* occurrences of the URLs among the result elements received.
C3_EachUrlOnce ==
    /\ \A i, j \in 1..Len(all_results) :
          i # j => all_results[i].url # all_results[j].url
    /\ all_results = ExpectedHits(Flatten(fetched))

\* a URL stood on two pages, and twice on one of them
C3_Witness ==
    /\ s_pc = "returned" /\ Len(fetched) >= 2
    /\ \E u \in SearchUrls :
          /\ \E i, j \in 1..Len(fetched[1].items) :
                i # j /\ fetched[1].items[i].href = u /\ fetched[1].items[j].href = u
          /\ \E i \in 1..Len(fetched[2].items) : fetched[2].items[i].href = u
          /\ Cardinality({k \in 1..Len(all_results) : all_results[k].url = u}) = 1

\* C4: the pages are requested in order of page index, at offset index * 10;
\* at most max_pages are requested, none after a page without result elements,
\* and the call then returns without an error.
C4_Pagination ==
    /\ \A i \in 1..Len(requests) : requests[i] = (i - 1) * 10
    /\ Len(requests) <= max_pages
    /\ Len(fetched) = Len(requests)
    /\ \A i \in 1..Len(fetched) :
          (fetched[i].status = "ok" /\ fetched[i].items = <<>>)
              => (i = Len(fetched) /\ s_pc = "returned")
    /\ s_pc # "raised"

C4_WitnessEmptyPage ==
    /\ s_pc = "returned" /\ Len(requests) = 1 /\ Len(requests) < max_pages
    /\ fetched[1] = PageOk(<<>>)

C4_WitnessPageBound ==
    /\ s_pc = "returned" /\ Len(requests) = max_pages /\ max_pages >= 2
    /\ \A i \in 1..Len(fetched) : fetched[i].status = "ok" /\ fetched[i].items # <<>>

\* C5: when the request for page k raises, the pagination ends, no exception
\* reaches the caller, and what is returned is the de-duplicated hits of the
\* pages 0..k-1.
C5_ErrorTruncates ==
    \A k \in 1..Len(fetched) :
        fetched[k].status = "error" =>
            /\ k = Len(fetched)
            /\ s_pc = "returned"
            /\ all_results = ExpectedHits(Flatten(SubSeq(fetched, 1, k - 1)))

C5_Witness ==
    /\ s_pc = "returned" /\ Len(fetched) = 2
    /\ fetched[2].status = "error" /\ Len(all_results) = 2

C5_WitnessFirstPage ==
    /\ s_pc = "returned" /\ Len(fetched) = 1
    /\ fetched[1].status = "error" /\ all_results = <<>>

-----------------------------------------------------------------------------
(* The search as run_tracker calls it: the whole loop, over the responses the
   search engine gives in turn (no response left: a page without elements). *)
RECURSIVE SearchLoop(_, _, _, _, _)
SearchLoop(script, maxp, pg, results, seen) ==
    IF pg >= maxp THEN results
    ELSE LET resp == IF pg + 1 <= Len(script) THEN script[pg + 1] ELSE PageOk(<<>>)
         IN  IF resp.status = "error" \/ resp.items = <<>> THEN results
             ELSE SearchLoop(script, maxp, pg + 1,
                             ItemLoop(resp.items, results, seen)[1],
                             ItemLoop(resp.items, results, seen)[2])

DefaultMaxPages == 5

search_urls_bing_news(script) == SearchLoop(script, DefaultMaxPages, 0, <<>>, {})

-----------------------------------------------------------------------------
(* run_tracker and the helpers it calls *)

\* any(k.lower() in text for k in keywords), text = (text or "").lower()
contains_keywords(text, kws) ==
    \E k \in kws : In(lower(k), lower(OrEmpty(text)))

\* nlp(text).ents: a lookup of the names below stands for the spaCy pipeline
Gazetteer == <<[text |-> "Jane Doe", label_ |-> "PERSON"],
               [text |-> "Acme Corp", label_ |-> "ORG"],
               [text |-> "2024-03-01", label_ |-> "DATE"],
               [text |-> "India", label_ |-> "GPE"]>>

RECURSIVE nlp_ents(_, _)
nlp_ents(text, i) ==
    IF i > Len(Gazetteer) THEN <<>>
    ELSE IF In(Gazetteer[i].text, text) THEN <<Gazetteer[i]>> \o nlp_ents(text, i + 1)
    ELSE nlp_ents(text, i + 1)

RECURSIVE EntTexts(_)
EntTexts(ents) ==
    IF ents = <<>> THEN <<>>
    ELSE IF Head(ents).label_ \in {"PERSON", "ORG", "GPE"}
         THEN <<Head(ents).text>> \o EntTexts(Tail(ents))
    ELSE EntTexts(Tail(ents))

extract_named_entities(text) ==
    IF ~Truthy(text) THEN <<>> ELSE EntTexts(nlp_ents(text, 1))

RECURSIVE ZeroPad(_, _)
ZeroPad(n, w) == IF w = 0 THEN "" ELSE ZeroPad(n \div 10, w - 1) \o DigitChar(n % 10)

\* dt.strftime('%Y-%m-%d')
strftime(dt) == ZeroPad(dt[1], 4) \o "-" \o ZeroPad(dt[2], 2) \o "-" \o ZeroPad(dt[3], 2)

extract_event_date(text) ==
    IF search_dates(text) # <<>> THEN strftime(search_dates(text)[1])
    ELSE "Not Mentioned"

\* [l for l in leaders if l.lower() in full_text.lower()]
RECURSIVE LeadersIn(_, _)
LeadersIn(ldrs, full_text) ==
    IF ldrs = <<>> THEN <<>>
    ELSE IF In(lower(Head(ldrs)), lower(full_text))
         THEN <<Head(ldrs)>> \o LeadersIn(Tail(ldrs), full_text)
    ELSE LeadersIn(Tail(ldrs), full_text)

OrElse(s, other) == IF Truthy(s) THEN s ELSE other

SummaryLen == 500

Prefix(s, n) == SubSeq(s, 1, IF Len(s) < n THEN Len(s) ELSE n)

\* start_date <= dt.date() <= end_date
InRange(dt, start, end) == DateLeq(start, DateOf(dt)) /\ DateLeq(DateOf(dt), end)

\* the two tests joined by `and`: a variant of the filter below
DateFilterRejects_both(pub_date_from_url, pub_date, start, end) ==
    /\ pub_date_from_url # NoneDt /\ ~InRange(pub_date_from_url, start, end)
    /\ pub_date # NoneDt /\ ~InRange(pub_date, start, end)

\* the two `continue` tests
DateFilterRejects(pub_date_from_url, pub_date, start, end) ==
    \/ pub_date_from_url # NoneDt /\ ~InRange(pub_date_from_url, start, end)
    \/ pub_date # NoneDt /\ ~InRange(pub_date, start, end)

\* the test without contains_keywords: a variant of the test below
Relevant_any_text(full_text, all_keywords) == Truthy(full_text)

\* if full_text and contains_keywords(full_text, all_keywords)
Relevant(full_text, all_keywords) ==
    Truthy(full_text) /\ contains_keywords(full_text, all_keywords)

TrackedArticle(title, url, full_text, pub_date, summary, ldrs) ==
    [Title |-> title,
     URL |-> url,
     Published_Date |-> IF pub_date # NoneDt THEN strftime(pub_date) ELSE "Unknown",
     Event_Date |-> extract_event_date(full_text),
     Leader_Mentioned |-> OrElse(join(", ", LeadersIn(ldrs, full_text)), "Not Mentioned"),
     Category |-> categorize_article(full_text),
     Named_Entities |-> join(", ", extract_named_entities(full_text)),
     Summary |-> IF Truthy(full_text)
                 THEN OrElse(summary, Prefix(full_text, SummaryLen) \o "...")
                 ELSE "No summary available."]

FailedArticle(title, url, pub_date, pub_date_from_url) ==
    LET final_date == IF pub_date # NoneDt THEN pub_date ELSE pub_date_from_url
    IN  [Title |-> title,
         URL |-> url,
         Published_Date |-> IF final_date # NoneDt THEN strftime(final_date) ELSE "Unknown"]

\* an insert at the front: a variant of list.append
list_prepend(lst, x) == <<x>> \o lst

\* list.append
list_append(lst, x) == Append(lst, x)

(* The calls of run_tracker: the caller's input, the search engine's answers
   to each keyword's search and the answers to each fetch are drawn from the
   sets below. *)
Item(text, href) == [text |-> text, href |-> href]

UrlMarch == "n/2024-03-01/a"
UrlOld == "n/2023-05-05/b"
UrlPlain == "n/c"

SearchScripts ==
    {<<PageOk(<<Item(" Acme wins ", UrlMarch), Item("Old story", UrlOld)>>),
       PageOk(<<Item("Acme wins again", UrlMarch)>>)>>,
     <<PageOk(<<Item("Plain", UrlPlain)>>), PageError>>,
     <<PageError>>}

EnvQuoted ==
    [primary |-> "ok", fallback |-> "ok",
     text |-> " Jane Doe was quoted by ACME CORP on 2024-03-01. ",
     summary |-> "sum", publish_date |-> <<2024, 3, 1, 8, 30, 0, "+05:30">>,
     html |-> HtmlDated, now |-> Now]
EnvOffTopic ==
    [primary |-> "ok", fallback |-> "ok", text |-> "hello world",
     summary |-> "", publish_date |-> NoneDt, html |-> EmptyHtml, now |-> Now]
EnvDown ==
    [primary |-> "raise", fallback |-> "raise", text |-> "", summary |-> "",
     publish_date |-> NoneDt, html |-> EmptyHtml, now |-> Now]
EnvFallback ==
    [primary |-> "raise", fallback |-> "ok", text |-> "", summary |-> "",
     publish_date |-> NoneDt, html |-> HtmlDated, now |-> Now]
TrackerEnvs == {EnvQuoted, EnvOffTopic, EnvDown, EnvFallback}

KeywordInputs == {<<"Acme Corp">>, <<"OMD India", "Acme Corp">>}
LeaderInputs == {<<>>, <<"Jane Doe", "Kartik Sharma">>}
RangeInputs == {<<<<2024, 3, 1>>, <<2024, 3, 1>>>>,
                <<<<2023, 1, 1>>, <<2024, 12, 31>>>>}

InitTracker ==
    /\ t_pc = "search"
    /\ keywords \in KeywordInputs /\ leaders \in LeaderInputs
    /\ \E r \in RangeInputs : start_date = r[1] /\ end_date = r[2]
    /\ kw_idx = 1 /\ search_results = <<>> /\ hit_idx = 0
    /\ final_data = <<>> /\ failed_articles = <<>>
    /\ final_from = <<>> /\ failed_from = <<>> /\ hit_log = <<>>
    /\ IdleU /\ IdleC /\ IdleF /\ IdleS

\* list(set(keywords + leaders))
all_keywords ==
    {keywords[i] : i \in 1..Len(keywords)} \cup {leaders[i] : i \in 1..Len(leaders)}

\* for keyword in keywords: search_results = search_urls_bing_news(keyword)
TrackerSearch ==
    /\ t_pc = "search" /\ kw_idx <= Len(keywords)
    /\ \E script \in SearchScripts : search_results' = search_urls_bing_news(script)
    /\ hit_idx' = 1
    /\ t_pc' = "hits"
    /\ UNCHANGED <<keywords, leaders, start_date, end_date, kw_idx, final_data,
                   failed_articles, final_from, failed_from, hit_log>>

\* the body of `for result in search_results`, for the hit at hit_idx.
\* final_from, failed_from and hit_log record, beside the two lists, which
\* hit each entry came from and what was fetched for it.
ProcessHit ==
    /\ t_pc = "hits" /\ hit_idx <= Len(search_results)
    /\ \E env \in TrackerEnvs :
        LET url == search_results[hit_idx].url
            title == search_results[hit_idx].title
            pub_date_from_url == extract_date_from_url(url)
            fetch == fetch_full_text_and_summary(url, env)
        IN  IF fetch = Raised    \* no try around the call: the exception leaves
            THEN /\ t_pc' = "raised"
                 /\ UNCHANGED <<hit_idx, final_data, failed_articles, final_from,
                                failed_from, hit_log>>
            ELSE
            LET full_text == fetch[1]
                pub_date == fetch[2]
                summary == fetch[3]
            IN  /\ hit_log' = Append(hit_log,
                        [k |-> kw_idx, h |-> hit_idx, url |-> url, title |-> title,
                         down |-> (env.primary = "raise" /\ env.fallback = "raise"),
                         pub_date_from_url |-> pub_date_from_url,
                         full_text |-> full_text, pub_date |-> pub_date])
                /\ IF DateFilterRejects(pub_date_from_url, pub_date, start_date, end_date)
                   THEN UNCHANGED <<final_data, failed_articles, final_from, failed_from>>
                   ELSE IF Relevant(full_text, all_keywords)
                   THEN /\ final_data' = list_append(final_data,
                              TrackedArticle(title, url, full_text, pub_date, summary, leaders))
                        /\ final_from' = Append(final_from, <<kw_idx, hit_idx>>)
                        /\ UNCHANGED <<failed_articles, failed_from>>
                   ELSE /\ failed_articles' = list_append(failed_articles,
                              FailedArticle(title, url, pub_date, pub_date_from_url))
                        /\ failed_from' = Append(failed_from, <<kw_idx, hit_idx>>)
                        /\ UNCHANGED <<final_data, final_from>>
                /\ hit_idx' = hit_idx + 1
                /\ t_pc' = "hits"
    /\ UNCHANGED <<keywords, leaders, start_date, end_date, kw_idx, search_results>>

\* the hits of this keyword are exhausted: the next keyword
NextKeyword ==
    /\ t_pc = "hits" /\ hit_idx > Len(search_results)
    /\ kw_idx' = kw_idx + 1
    /\ t_pc' = "search"
    /\ UNCHANGED <<keywords, leaders, start_date, end_date, search_results, hit_idx,
                   final_data, failed_articles, final_from, failed_from, hit_log>>

\* return pd.DataFrame(final_data), pd.DataFrame(failed_articles)
TrackerReturn ==
    /\ t_pc = "search" /\ kw_idx > Len(keywords)
    /\ t_pc' = "returned"
    /\ UNCHANGED <<keywords, leaders, start_date, end_date, kw_idx, search_results,
                   hit_idx, final_data, failed_articles, final_from, failed_from,
                   hit_log>>

NextTracker ==
    \/ (TrackerSearch /\ UNCHANGED <<u_vars, c_vars, f_vars, s_vars>>)
    \/ (ProcessHit /\ UNCHANGED <<u_vars, c_vars, f_vars, s_vars>>)
    \/ (NextKeyword /\ UNCHANGED <<u_vars, c_vars, f_vars, s_vars>>)
    \/ (TrackerReturn /\ UNCHANGED <<u_vars, c_vars, f_vars, s_vars>>)

SpecTracker == InitTracker /\ [][NextTracker]_vars

-----------------------------------------------------------------------------
(* The claims about run_tracker, over the hits processed so far (hit_log). *)

HitKey(L) == <<L.k, L.h>>

Count(seq, x) == Cardinality({j \in 1..Len(seq) : seq[j] = x})

DateNumber(d) == d[1] * 10000 + d[2] * 100 + d[3]

\* the date is present and before start_date or after end_date
Outside(dt) ==
    /\ dt # NoneDt
    /\ \/ DateNumber(dt) < DateNumber(start_date)
       \/ DateNumber(dt) > DateNumber(end_date)

\* C1: a hit is left out of both output lists exactly when its URL-derived
\* date is present and outside [start_date, end_date] or its fetch-derived
\* date is; a hit with neither date is never left out.
C1_DateFilter ==
    \A i \in 1..Len(hit_log) :
        LET L == hit_log[i]
            excluded == Count(final_from, HitKey(L)) = 0 /\ Count(failed_from, HitKey(L)) = 0
        IN  excluded <=> (Outside(L.pub_date_from_url) \/ Outside(L.pub_date))

\* the URL's date is in range, the fetched date is not: left out
C1_Witness ==
    \E i \in 1..Len(hit_log) :
        LET L == hit_log[i]
        IN  /\ L.pub_date_from_url # NoneDt /\ ~Outside(L.pub_date_from_url)
            /\ Outside(L.pub_date)
            /\ Count(final_from, HitKey(L)) = 0 /\ Count(failed_from, HitKey(L)) = 0

\* no date at all: recorded
C1_WitnessUndated ==
    \E i \in 1..Len(hit_log) :
        LET L == hit_log[i]
        IN  /\ L.pub_date_from_url = NoneDt /\ L.pub_date = NoneDt
            /\ Count(failed_from, HitKey(L)) = 1

\* the entries of the two lists are the hits final_from and failed_from name
ListsMatchSources ==
    /\ Len(final_data) = Len(final_from) /\ Len(failed_articles) = Len(failed_from)
    /\ \A j \in 1..Len(final_from) :
          \E i \in 1..Len(hit_log) :
             /\ HitKey(hit_log[i]) = final_from[j]
             /\ final_data[j].URL = hit_log[i].url
             /\ final_data[j].Title = hit_log[i].title
    /\ \A j \in 1..Len(failed_from) :
          \E i \in 1..Len(hit_log) :
             /\ HitKey(hit_log[i]) = failed_from[j]
             /\ failed_articles[j].URL = hit_log[i].url
             /\ failed_articles[j].Title = hit_log[i].title

\* C2: a hit that passes the date filter is recorded exactly once, in one list:
\* the matched list if and only if its text is present and holds, whatever the
\* case, one of the keywords or leader names; else the failed list.
C2_ExactlyOneList ==
    /\ ListsMatchSources
    /\ \A i \in 1..Len(hit_log) :
        LET L == hit_log[i]
            matches == /\ L.full_text # NoneStr
                       /\ \E k \in all_keywords : In(lower(k), lower(L.full_text))
        IN  ~(Outside(L.pub_date_from_url) \/ Outside(L.pub_date)) =>
               /\ Count(final_from, HitKey(L)) + Count(failed_from, HitKey(L)) = 1
               /\ Count(final_from, HitKey(L)) = 1 <=> matches

\* fetched, none of the keywords or names in the text: in the failed list
C2_Witness ==
    \E i \in 1..Len(hit_log), j \in 1..Len(failed_from) :
        /\ Truthy(hit_log[i].full_text)
        /\ ~contains_keywords(hit_log[i].full_text, all_keywords)
        /\ failed_from[j] = HitKey(hit_log[i])
        /\ failed_articles[j].URL = hit_log[i].url

\* a keyword in another case than the text's: in the matched list
C2_WitnessMatched ==
    \E i \in 1..Len(hit_log), j \in 1..Len(final_from) :
        /\ final_from[j] = HitKey(hit_log[i])
        /\ ~In("Acme Corp", hit_log[i].full_text)
        /\ final_data[j].Category = "Article Commentary"
        /\ final_data[j].Leader_Mentioned = "Jane Doe"

\* C8 as stated: a hit whose two extraction paths both fail is always recorded
\* in the failed list.
C8_DownAlwaysFailed ==
    \A i \in 1..Len(hit_log) :
        hit_log[i].down =>
            /\ hit_log[i].full_text = NoneStr
            /\ Count(failed_from, HitKey(hit_log[i])) = 1

\* C8, amended: a hit whose two extraction paths both fail has no text, no
\* exception leaves run_tracker, and the hit is recorded once in the failed
\* list and not in the matched list, unless the URL's date is present and
\* outside the range: then it is in neither list.
C8_DownFailedUnlessUrlDateOutside ==
    /\ t_pc \in {"search", "hits", "returned"}
    /\ \A i \in 1..Len(hit_log) :
        LET L == hit_log[i]
        IN  L.down =>
              /\ L.full_text = NoneStr
              /\ Count(final_from, HitKey(L)) = 0
              /\ Count(failed_from, HitKey(L)) =
                    IF Outside(L.pub_date_from_url) THEN 0 ELSE 1

\* a failed fetch recorded in the failed list, and a later hit processed
C8_Witness ==
    \E i, j \in 1..Len(hit_log) :
        /\ i < j /\ hit_log[i].down
        /\ Count(failed_from, HitKey(hit_log[i])) = 1

LexLess(p, q) == p[1] < q[1] \/ (p[1] = q[1] /\ p[2] < q[2])

IsPrefix(a, b) == Len(a) <= Len(b) /\ SubSeq(b, 1, Len(a)) = a

C9_InOrder ==
    /\ ListsMatchSources
    /\ \A i, j \in 1..Len(final_from) : i < j => LexLess(final_from[i], final_from[j])
    /\ \A i, j \in 1..Len(failed_from) : i < j => LexLess(failed_from[i], failed_from[j])

\* C9: the two lists are in keyword-then-hit order, and a step only appends:
\* the entries there stay, unchanged and in place.
C9_AppendOnlyInOrder ==
    /\ []C9_InOrder
    /\ [][IsPrefix(final_data, final_data') /\ IsPrefix(failed_articles, failed_articles')]_vars

\* both lists hold entries of two keywords
C9_Witness ==
    /\ t_pc = "returned"
    /\ \E i, j \in 1..Len(final_from) : final_from[i][1] < final_from[j][1]
    /\ \E i, j \in 1..Len(failed_from) : failed_from[i][1] < failed_from[j][1]

====
